---------------------------- MODULE Spec2Model ----------------------------
(***************************************************************************)
(* Model of pyfluidsynth3: the typed settings store (FluidSettings), the   *)
(* MIDI player wrapper (FluidPlayer) and the look-ahead event scheduler of *)
(* examples/music_box.py.  The three components do not share state; each   *)
(* has its own specification over the same variables.                      *)
(***************************************************************************)
EXTENDS Integers, Sequences, FiniteSets, TLC

VARIABLES
    \* ---- FluidSettings (pyfluidsynth3/fluidsettings.py) ----
    libVersion,   \* major version of the linked library, handle.get_version()
    table,        \* the external settings table: key -> stored value
    quality,      \* FluidSettings._quality, the cached preset label
    res,          \* outcome of the last __getitem__ / __setitem__ / quality call
    lastPreset,   \* the preset last assigned to FluidSettings.quality
    versionQueries, \* calls of handle.get_version() made by the store so far
    libWrites,    \* calls of fluid_settings_setstr/setnum/setint made so far
    \* ---- FluidPlayer (pyfluidsynth3/fluidplayer.py) ----
    paused,       \* FluidPlayer.paused
    log,          \* calls made on the FluidPlayer, each with the native commands it forwarded
    del,          \* outcome of FluidPlayer.__del__, once it has run
    \* ---- music_box.py ----
    now,          \* the sequencer's tick clock (SEQUENCER.ticks)
    SEQ_START,    \* global SEQ_START
    mainPc,       \* position of the main thread in main()
    pos,          \* per thread: statement of schedule_next_sequence it is at (0 = not in it)
    tmp,          \* per thread: the value of SEQ_START loaded for SEQ_START + SEQ_DURATION
    cur,          \* per thread: what the running schedule_next_sequence has sent so far
    windows,      \* completed schedule_next_sequence executions, in order of completion
    timers,       \* timer events held by the sequencer for client MY_SEQ_ID (dates)
    registered,   \* client MY_SEQ_ID is registered with the sequencer
    alive,        \* which of SEQUENCER, ADRIVER, SYNTH still exist
    coveredUntil, \* end tick of the last window for which a note was submitted
    late,         \* the clock moved during a schedule_next_sequence, or past a due wake-up
    ranAfterDel,  \* the callback was entered or executed a step after del SEQUENCER
    \* ---- examples/player_gui.py ----
    stage,        \* __main__: "new" before player.set_playlist, "gui" once the GUI runs
    _fluidplayer, \* Player._fluidplayer: the native player, its files and the calls it received
    _playlist,    \* Player._playlist
    _tempo_bpm,   \* Player._tempo_bpm, None or a value
    _midi_tempo,  \* Player._midi_tempo, None or a value
    gres,         \* the last handler run on the main thread and its outcome
    gcalls,       \* handlers run so far
    _timer,       \* PlayerGui._timer: 0 for None, else the index of a Timer object
    timerSt,      \* the Timer objects created so far, each "created", "waiting", "fired" or "cancelled"
    toPc,         \* line of _on_timeout the timer thread is at (0 = not running it)
    exitPc,       \* _on_exit: 0 not entered, 1 timer cancelled, 2 window destroyed
    updatedAfterExit \* a label update was attempted by _on_timeout after the window was destroyed

settingsVars == <<libVersion, table, quality, res, lastPreset, versionQueries, libWrites>>
playerVars   == <<paused, log, del>>
schedVars    == <<now, SEQ_START, mainPc, pos, tmp, cur, windows, timers,
                  registered, alive, coveredUntil, late, ranAfterDel>>
guiVars      == <<stage, _fluidplayer, _playlist, _tempo_bpm, _midi_tempo, gres, gcalls,
                  _timer, timerSt, toPc, exitPc, updatedAfterExit>>
vars == <<settingsVars, playerVars, schedVars, guiVars>>

Max(S) == CHOOSE x \in S : \A y \in S : y <= x

(***************************************************************************)
(*                          FluidSettings                                  *)
(***************************************************************************)

\* Settings types, range(-1, 4)
FLUID_NO_TYPE  == -1
FLUID_NUM_TYPE == 0
FLUID_INT_TYPE == 1
FLUID_STR_TYPE == 2
FLUID_SET_TYPE == 3

\* constants.OK / constants.FAILED: the libfluidsynth v2 convention
OK     == 0
FAILED == -1

QUALITY_LOW    == "low"
QUALITY_MEDIUM == "med"
QUALITY_HIGH   == "high"

\* Major versions of the linked library
LibVersions == {1, 2, 3}

\* Keys of the external table and the type fluid_settings_get_type reports
Keys == {"synth.sample-rate", "synth.chorus.active", "synth.reverb.active",
         "audio.driver", "synth", "no.such.key"}

KeyType(key) ==
    CASE key = "synth.sample-rate"   -> FLUID_NUM_TYPE
      [] key = "synth.chorus.active" -> FLUID_INT_TYPE
      [] key = "synth.reverb.active" -> FLUID_INT_TYPE
      [] key = "audio.driver"        -> FLUID_STR_TYPE
      [] key = "synth"               -> FLUID_SET_TYPE
      [] OTHER                       -> FLUID_NO_TYPE

Mutant_TypedKeys == {k \in Keys : KeyType(k) # FLUID_NO_TYPE}

\* The keys the if/elif chains of __getitem__ and __setitem__ dispatch on
TypedKeys == {k \in Keys : KeyType(k) \in {FLUID_NUM_TYPE, FLUID_INT_TYPE, FLUID_STR_TYPE}}

\* Values.  A float is held in tenths (3.5 is FloatV(35)), so that truncation
\* to an integer is not the identity.
IntV(n)   == [t |-> "int",   v |-> n]
FloatV(x) == [t |-> "float", v |-> x]
StrV(s)   == [t |-> "str",   v |-> s]
NoVal    == [t |-> "none",  v |-> 0]

\* The values callers pass to __setitem__
SetValues == {IntV(0), IntV(1), FloatV(35),
              StrV("off"), StrV("banana"), StrV("3.5"), StrV("7"),
              StrV("true"), StrV("OFF")}
\* ... and those passed for the string key
DriverNames == {"alsa"}

\* float(s) / int(s) of a string: the strings that parse, and their value
FloatOfStr(s) == CASE s = "3.5" -> 35 [] s = "7" -> 70 [] OTHER -> -1
IntOfStr(s)   == CASE s = "7" -> 7 [] OTHER -> -1
ParsesAsFloat(s) == s \in {"3.5", "7"}
ParsesAsInt(s)   == s \in {"7"}

\* str.lower() of the strings passed
Lower(s) == CASE s = "OFF" -> "off" [] OTHER -> s

Mutant_Truthy(s) == IF s \in {"false", "no", "off"} THEN 0 ELSE 1

\* string_value.lower() not in ('false', 'no', 'off'), as 0 or 1
Truthy(s) == IF Lower(s) \in {"false", "no", "off"} THEN 0 ELSE 1

\* FluidSettings._coerce_to_float: the float, in tenths
_coerce_to_float(value) ==
    CASE value.t = "int"   -> value.v * 10
      [] value.t = "float" -> value.v
      [] OTHER -> IF ParsesAsFloat(value.v) THEN FloatOfStr(value.v)
                  ELSE Truthy(value.v) * 10

\* FluidSettings._coerce_to_int
_coerce_to_int(value) ==
    CASE value.t = "int"   -> value.v
      [] value.t = "float" -> value.v \div 10
      [] OTHER -> IF ParsesAsInt(value.v) THEN IntOfStr(value.v)
                  ELSE Truthy(value.v)

\* Raw codes a fluid_settings_set* call of the library can return, and
\* whether the library has stored the value when it returns that code.
NegCodes == {-1, -2}
RawCodes(v) == IF v = 1 THEN {0, 1} ELSE {0} \cup NegCodes
LibStored(v, raw) == IF v = 1 THEN raw # 0 ELSE raw = 0

\* Raw code of a fluid_settings_get* call that has read the value
LibReadOk(v) == IF v = 1 THEN 1 ELSE 0

\* fluid_settings_getstr was removed from libfluidsynth 2.0.0
HasGetStr(v) == v = 1

Mutant_normalize_ret_code(ret_code) ==
    IF libVersion = 1
    THEN IF ret_code = 0 THEN OK ELSE FAILED
    ELSE ret_code

\* FluidSettings._normalize_ret_code
_normalize_ret_code(ret_code) ==
    IF libVersion = 1
    THEN IF ret_code = 1 THEN OK ELSE FAILED
    ELSE ret_code

\* FluidSettings.__init__: quality = QUALITY_MEDIUM has written the three keys
InitSettings ==
    /\ libVersion \in LibVersions
    /\ table = [k \in TypedKeys |->
                 CASE k = "synth.sample-rate"   -> FloatV(441000)
                   [] k = "synth.chorus.active" -> IntV(0)
                   [] k = "synth.reverb.active" -> IntV(1)
                   [] OTHER                     -> StrV("jack")]
    /\ quality = QUALITY_MEDIUM
    /\ res = [op |-> "init", key |-> "", raw |-> 0, raised |-> "none",
              val |-> NoVal, sent |-> NoVal, arg |-> NoVal, wrote |-> 0]
    /\ lastPreset = QUALITY_MEDIUM
    /\ versionQueries = 3
    /\ libWrites = 3

\* FluidSettings.__getitem__
GetItem(key) ==
    LET key_type == KeyType(key)
        typed    == key_type \in {FLUID_NUM_TYPE, FLUID_INT_TYPE}
                    \/ (key_type = FLUID_STR_TYPE /\ HasGetStr(libVersion))
        raw      == LibReadOk(libVersion)
    IN  /\ res' = IF ~typed
                  THEN [op |-> "get", key |-> key, raw |-> 0, raised |-> "KeyError",
                        val |-> NoVal, sent |-> NoVal, arg |-> NoVal, wrote |-> 0]
                  ELSE IF raw # 0
                  THEN [op |-> "get", key |-> key, raw |-> raw, raised |-> "none",
                        val |-> table[key], sent |-> NoVal, arg |-> NoVal, wrote |-> 0]
                  ELSE [op |-> "get", key |-> key, raw |-> raw, raised |-> "KeyError",
                        val |-> NoVal, sent |-> NoVal, arg |-> NoVal, wrote |-> 0]
        /\ UNCHANGED <<libVersion, table, quality, lastPreset, versionQueries, libWrites>>
        /\ UNCHANGED <<playerVars, schedVars, guiVars>>

\* Underlying writes made on one store: by direct __setitem__ calls, and
\* by the quality setter
MaxLibWrites == 6
MaxQualityWrites == 9

\* The value __setitem__ forwards to fluid_settings_setstr/setnum/setint
Coerced(key, value) ==
    CASE KeyType(key) = FLUID_STR_TYPE -> value
      [] KeyType(key) = FLUID_NUM_TYPE -> FloatV(_coerce_to_float(value))
      [] KeyType(key) = FLUID_INT_TYPE -> IntV(_coerce_to_int(value))
      [] OTHER -> NoVal

\* The external table after the library has answered a write with code raw
TableAfter(tbl, key, value, raw) ==
    IF LibStored(libVersion, raw) THEN [tbl EXCEPT ![key] = Coerced(key, value)] ELSE tbl

\* if self._normalize_ret_code(ret) == constants.FAILED: raise KeyError(key)
WriteRaises(raw) == _normalize_ret_code(raw) = FAILED

Mutant_SetItem(key, value, raw) ==
    IF key \in TypedKeys
    THEN /\ KeyType(key) = FLUID_STR_TYPE => value \in {StrV(n) : n \in DriverNames}
         /\ libWrites < MaxLibWrites
         /\ table' = TableAfter(table, key, value, raw)
         /\ res' = [op |-> "set", key |-> key, raw |-> raw,
                    raised |-> IF WriteRaises(raw) THEN "KeyError" ELSE "none",
                    val |-> NoVal, sent |-> Coerced(key, value), arg |-> value,
                    wrote |-> IF LibStored(libVersion, raw) THEN 1 ELSE 0]
         /\ versionQueries' = versionQueries + 1
         /\ libWrites' = libWrites + 1
         /\ quality' = IF table'["synth.chorus.active"] = IntV(1) THEN QUALITY_HIGH
                       ELSE IF table'["synth.reverb.active"] = IntV(1) THEN QUALITY_MEDIUM
                       ELSE QUALITY_LOW
         /\ UNCHANGED <<libVersion, lastPreset>>
         /\ UNCHANGED <<playerVars, schedVars, guiVars>>
    ELSE /\ res' = [op |-> "set", key |-> key, raw |-> 0, raised |-> "KeyError",
                    val |-> NoVal, sent |-> NoVal, arg |-> value, wrote |-> 0]
         /\ UNCHANGED <<libVersion, table, quality, lastPreset, versionQueries, libWrites>>
         /\ UNCHANGED <<playerVars, schedVars, guiVars>>

\* FluidSettings.__setitem__; raw is the code the library returns
SetItem(key, value, raw) ==
    IF key \in TypedKeys
    THEN /\ KeyType(key) = FLUID_STR_TYPE => value \in {StrV(n) : n \in DriverNames}
         /\ libWrites < MaxLibWrites
         /\ table' = TableAfter(table, key, value, raw)
         /\ res' = [op |-> "set", key |-> key, raw |-> raw,
                    raised |-> IF WriteRaises(raw) THEN "KeyError" ELSE "none",
                    val |-> NoVal, sent |-> Coerced(key, value), arg |-> value,
                    wrote |-> IF LibStored(libVersion, raw) THEN 1 ELSE 0]
         /\ versionQueries' = versionQueries + 1
         /\ libWrites' = libWrites + 1
         /\ UNCHANGED <<libVersion, quality, lastPreset>>
         /\ UNCHANGED <<playerVars, schedVars, guiVars>>
    ELSE /\ res' = [op |-> "set", key |-> key, raw |-> 0, raised |-> "KeyError",
                    val |-> NoVal, sent |-> NoVal, arg |-> value, wrote |-> 0]
         /\ UNCHANGED <<libVersion, table, quality, lastPreset, versionQueries, libWrites>>
         /\ UNCHANGED <<playerVars, schedVars, guiVars>>

\* The labels passed to the quality setter; the last one is no preset
Presets == {QUALITY_LOW, QUALITY_MEDIUM, QUALITY_HIGH, "best"}

\* The three assignments of each branch of the quality setter, in order;
\* constants.FALSE and constants.TRUE are the integers 0 and 1
PresetWrites(preset) ==
    CASE preset = QUALITY_LOW ->
           << <<"synth.chorus.active", IntV(0)>>, <<"synth.reverb.active", IntV(0)>>,
              <<"synth.sample-rate", IntV(22050)>> >>
      [] preset = QUALITY_MEDIUM ->
           << <<"synth.chorus.active", IntV(0)>>, <<"synth.reverb.active", IntV(1)>>,
              <<"synth.sample-rate", IntV(44100)>> >>
      [] preset = QUALITY_HIGH ->
           << <<"synth.chorus.active", IntV(1)>>, <<"synth.reverb.active", IntV(1)>>,
              <<"synth.sample-rate", IntV(44100)>> >>
      [] OTHER -> << >>

\* The assignments of the setter run through __setitem__ one after the other
\* until one raises; raws are the codes the library answers them with
RECURSIVE ApplyWrites(_, _, _)
ApplyWrites(tbl, writes, raws) ==
    IF writes = << >>
    THEN [table |-> tbl, raised |-> "none", key |-> "", n |-> 0, wrote |-> 0]
    ELSE LET w  == Head(writes)
             r  == Head(raws)
             t  == TableAfter(tbl, w[1], w[2], r)
             st == IF LibStored(libVersion, r) THEN 1 ELSE 0
         IN  IF WriteRaises(r)
             THEN [table |-> t, raised |-> "KeyError", key |-> w[1], n |-> 1, wrote |-> st]
             ELSE LET rest == ApplyWrites(t, Tail(writes), Tail(raws))
                  IN  [rest EXCEPT !.n = @ + 1, !.wrote = @ + st]

Mutant_quality_label(preset, raised) == IF raised = "none" THEN preset ELSE quality

\* self._quality = quality, the first statement of the setter
quality_label(preset, raised) == preset

\* The quality property getter
get_quality == quality

Mutant_SetQuality(preset, raws) ==
    LET out == ApplyWrites(table, PresetWrites(preset), raws)
    IN  /\ libWrites + Len(PresetWrites(preset)) <= MaxQualityWrites
        /\ quality' = IF out.raised = "none" THEN preset ELSE quality
        /\ lastPreset' = preset
        /\ table' = IF out.raised = "none" THEN out.table ELSE table
        /\ res' = [op |-> "quality", key |-> out.key, raw |-> 0, raised |-> out.raised,
                   val |-> NoVal, sent |-> NoVal, arg |-> StrV(preset), wrote |-> out.wrote]
        /\ versionQueries' = versionQueries + out.n
        /\ libWrites' = libWrites + out.n
        /\ UNCHANGED libVersion
        /\ UNCHANGED <<playerVars, schedVars, guiVars>>

\* The quality property setter; raws are the codes of its three writes
SetQuality(preset, raws) ==
    LET out == ApplyWrites(table, PresetWrites(preset), raws)
    IN  /\ libWrites + Len(PresetWrites(preset)) <= MaxQualityWrites
        /\ quality' = quality_label(preset, out.raised)
        /\ lastPreset' = preset
        /\ table' = out.table
        /\ res' = [op |-> "quality", key |-> out.key, raw |-> 0, raised |-> out.raised,
                   val |-> NoVal, sent |-> NoVal, arg |-> StrV(preset), wrote |-> out.wrote]
        /\ versionQueries' = versionQueries + out.n
        /\ libWrites' = libWrites + out.n
        /\ UNCHANGED libVersion
        /\ UNCHANGED <<playerVars, schedVars, guiVars>>

(***************************************************************************)
(*                           FluidPlayer                                   *)
(***************************************************************************)

\* Number of calls made on one player
MaxCalls == 5

\* FluidPlayer.__init__
InitPlayer ==
    /\ paused = TRUE
    /\ log = <<>>
    /\ del = [done |-> FALSE, raw |-> OK, raised |-> "none"]

\* play/stop commands forwarded to the native player so far, oldest first
RECURSIVE Flatten(_)
Flatten(l) == IF l = <<>> THEN <<>> ELSE Head(l).cmds \o Flatten(Tail(l))
PlayStop(l) == SelectSeq(Flatten(l), LAMBDA c : c \in {"play", "stop"})
LastCommand(l) == IF PlayStop(l) = <<>> THEN "none" ELSE PlayStop(l)[Len(PlayStop(l))]

\* FluidPlayer.play(midi)
Play(midi) ==
    /\ Len(log) < MaxCalls /\ ~del.done
    /\ log' = Append(log, [call |-> "play",
                           cmds |-> IF midi THEN <<"add", "play">> ELSE <<"play">>])
    /\ paused' = FALSE
    /\ UNCHANGED del
    /\ UNCHANGED <<settingsVars, schedVars, guiVars>>

\* FluidPlayer.stop
Stop ==
    /\ Len(log) < MaxCalls /\ ~del.done
    /\ log' = Append(log, [call |-> "stop", cmds |-> <<"stop">>])
    /\ paused' = TRUE
    /\ UNCHANGED del
    /\ UNCHANGED <<settingsVars, schedVars, guiVars>>

\* FluidPlayer.pause: play() or stop() sets self.paused, then the flag is negated
Pause ==
    /\ Len(log) < MaxCalls /\ ~del.done
    /\ LET cmd   == IF paused THEN "play" ELSE "stop"
           after == IF paused THEN FALSE ELSE TRUE
       IN  /\ log' = Append(log, [call |-> "pause", cmds |-> <<cmd>>])
           /\ paused' = ~after
    /\ UNCHANGED del
    /\ UNCHANGED <<settingsVars, schedVars, guiVars>>

Mutant_DelCommands == <<"stop", "delete", "join">>

\* The native calls of __del__: self.stop(), self.join(), delete_fluid_player
DelCommands == <<"stop", "join", "delete">>

\* FluidPlayer.__del__; raw is the code delete_fluid_player returns.  The
\* object is gone afterwards: no other method runs once del.done
Del(raw) ==
    /\ Len(log) < MaxCalls /\ ~del.done
    /\ log' = Append(log, [call |-> "del", cmds |-> DelCommands])
    /\ paused' = TRUE
    /\ del' = [done |-> TRUE, raw |-> raw,
               raised |-> IF raw = FAILED THEN "FluidError" ELSE "none"]
    /\ UNCHANGED <<settingsVars, schedVars, guiVars>>

(***************************************************************************)
(*                     examples/music_box.py                               *)
(***************************************************************************)

\* tick per beats
TPB == 240
\* 4 beats in the sequence
SEQ_DURATION == 4 * TPB
\* main: SEQ_START = now + 10, a small margin before the first note
StartMargin == 10

\* Sequencer client ids: the synth (add_synth) and this program ('me')
SYNTH_SEQ_ID == "synth"
MY_SEQ_ID    == "me"

\* The sequencer clock stops at MaxTick; it is at most MaxStartTick when main() reads it
MaxTick      == 3000
MaxStartTick == 1
\* Length of one stall of a thread, in ticks
TickStep     == 120

Threads == {"main", "seq"}

\* The six send_noteon calls of schedule_next_sequence, in order:
\* [channel, key, offset in beats from SEQ_START]
Notes == << [chan |-> 0, key |-> 60, beat |-> 0],
            [chan |-> 0, key |-> 55, beat |-> 2],
            [chan |-> 1, key |-> 72, beat |-> 0],
            [chan |-> 1, key |-> 76, beat |-> 1],
            [chan |-> 1, key |-> 79, beat |-> 2],
            [chan |-> 1, key |-> 76, beat |-> 3] >>

\* send_noteon(channel, key, date): the event handed to SEQUENCER.send
NoteOn(chan, key, date) ==
    [type |-> "noteon", dest |-> SYNTH_SEQ_ID, chan |-> chan, key |-> key,
     vel |-> 127, date |-> date, absolute |-> TRUE]

Mutant_callback_date(start) == start + SEQ_DURATION

MutantLate_callback_date(start) == (4 * start + 3 * SEQ_DURATION) \div 4

\* schedule_next_callback: callback_date = int(SEQ_START + SEQ_DURATION / 2)
callback_date(start) == (2 * start + SEQ_DURATION) \div 2

TimerEvent(date) ==
    [type |-> "timer", dest |-> MY_SEQ_ID, chan |-> 0, key |-> 0,
     vel |-> 0, date |-> date, absolute |-> TRUE]

\* Nothing sent yet: start is the SEQ_START the first send_noteon reads,
\* tstart the SEQ_START schedule_next_callback reads
NoCur == [start |-> -1, tstart |-> -1, msgs |-> <<>>]

\* State when main() is about to read SEQUENCER.ticks: create_synth has
\* registered both clients, nothing has been sent
InitSched ==
    /\ now \in 0..MaxStartTick
    /\ SEQ_START = 0
    /\ mainPc = "start"
    /\ pos = [t \in Threads |-> 0]
    /\ tmp = [t \in Threads |-> 0]
    /\ cur = [t \in Threads |-> NoCur]
    /\ windows = <<>>
    /\ timers = <<>>
    /\ registered = TRUE
    /\ alive = [SEQUENCER |-> TRUE, ADRIVER |-> TRUE, SYNTH |-> TRUE]
    /\ coveredUntil = 0
    /\ late = FALSE
    /\ ranAfterDel = FALSE

\* A timer event of client MY_SEQ_ID is due
Due(i) == i \in 1..Len(timers) /\ timers[i] <= now
RemoveAt(s, i) == SubSeq(s, 1, i - 1) \o SubSeq(s, i + 1, Len(s))

\* The sequencer clock advances while the threads do something else: by one
\* stall of TickStep ticks, or exactly up to the date of a pending timer event
Tick ==
    /\ mainPc # "start"
    /\ \E d \in {TickStep} \cup {timers[i] - now : i \in 1..Len(timers)} :
          /\ d > 0
          /\ now + d <= MaxTick
          /\ now' = now + d
    /\ late' = (late \/ pos["main"] # 0 \/ pos["seq"] # 0
                    \/ (registered /\ \E i \in 1..Len(timers) : timers[i] < now'))
    /\ UNCHANGED <<SEQ_START, mainPc, pos, tmp, cur, windows, timers, registered,
                   alive, coveredUntil, ranAfterDel>>
    /\ UNCHANGED <<settingsVars, playerVars, guiVars>>

\* main: now = SEQUENCER.ticks; SEQ_START = now + 10; schedule_next_sequence()
Prime ==
    /\ mainPc = "start"
    /\ SEQ_START' = now + StartMargin
    /\ mainPc' = "prime"
    /\ pos' = [pos EXCEPT !["main"] = 1]
    /\ cur' = [cur EXCEPT !["main"] = NoCur]
    /\ UNCHANGED <<now, tmp, windows, timers, registered, alive, coveredUntil,
                   late, ranAfterDel>>
    /\ UNCHANGED <<settingsVars, playerVars, guiVars>>

\* The sequencer thread delivers a due timer event to the registered client:
\* py_seq_callback enters schedule_next_sequence
Dispatch ==
    /\ registered
    /\ pos["seq"] = 0
    /\ \E i \in 1..Len(timers) :
          /\ Due(i)
          /\ \A j \in 1..Len(timers) : timers[i] < timers[j] \/ (timers[i] = timers[j] /\ i <= j)
          /\ timers' = RemoveAt(timers, i)
    /\ pos' = [pos EXCEPT !["seq"] = 1]
    /\ cur' = [cur EXCEPT !["seq"] = NoCur]
    /\ ranAfterDel' = (ranAfterDel \/ ~alive.SEQUENCER)
    /\ UNCHANGED <<now, SEQ_START, mainPc, tmp, windows, registered, alive,
                   coveredUntil, late>>
    /\ UNCHANGED <<settingsVars, playerVars, guiVars>>

\* One statement of schedule_next_sequence, run by thread th:
\*   1..6  send_noteon(...)              (each reads the global SEQ_START)
\*   7     schedule_next_callback()      (reads SEQ_START, sends the timer)
\*   8     load SEQ_START                (right-hand side of the assignment)
\*   9     store SEQ_START = loaded + SEQ_DURATION
\* A statement that uses SEQUENCER after del SEQUENCER raises NameError, which
\* ends the callback.
Statement(th) ==
    LET k == pos[th] IN
    /\ k # 0
    /\ ranAfterDel' = (ranAfterDel \/ (th = "seq" /\ ~alive.SEQUENCER))
    /\ IF k <= 7 /\ ~alive.SEQUENCER
       THEN /\ pos' = [pos EXCEPT ![th] = 0]
            /\ cur' = [cur EXCEPT ![th] = NoCur]
            /\ UNCHANGED <<SEQ_START, mainPc, tmp, windows, timers, coveredUntil>>
       ELSE CASE k \in 1..6 ->
                 /\ cur' = [cur EXCEPT ![th] =
                             [start |-> IF k = 1 THEN SEQ_START ELSE @.start,
                              tstart |-> @.tstart,
                              msgs  |-> Append(@.msgs,
                                          NoteOn(Notes[k].chan, Notes[k].key,
                                                 SEQ_START + Notes[k].beat * TPB))]]
                 /\ coveredUntil' = Max({coveredUntil, SEQ_START + SEQ_DURATION})
                 /\ pos' = [pos EXCEPT ![th] = k + 1]
                 /\ UNCHANGED <<SEQ_START, mainPc, tmp, windows, timers>>
              [] k = 7 ->
                 /\ cur' = [cur EXCEPT ![th].tstart = SEQ_START,
                                        ![th].msgs =
                             Append(@, TimerEvent(callback_date(SEQ_START)))]
                 /\ timers' = Append(timers, callback_date(SEQ_START))
                 /\ pos' = [pos EXCEPT ![th] = 8]
                 /\ UNCHANGED <<SEQ_START, mainPc, tmp, windows, coveredUntil>>
              [] k = 8 ->
                 /\ tmp' = [tmp EXCEPT ![th] = SEQ_START]
                 /\ pos' = [pos EXCEPT ![th] = 9]
                 /\ UNCHANGED <<SEQ_START, mainPc, cur, windows, timers, coveredUntil>>
              [] OTHER ->
                 /\ SEQ_START' = tmp[th] + SEQ_DURATION
                 /\ windows' = Append(windows,
                                 [thread |-> th, start |-> cur[th].start,
                                  tstart |-> cur[th].tstart,
                                  msgs |-> cur[th].msgs, before |-> SEQ_START,
                                  stored |-> tmp[th] + SEQ_DURATION])
                 /\ pos' = [pos EXCEPT ![th] = 0]
                 /\ cur' = [cur EXCEPT ![th] = NoCur]
                 /\ mainPc' = IF th = "main" THEN "sleep" ELSE mainPc
                 /\ UNCHANGED <<tmp, timers, coveredUntil>>
    /\ UNCHANGED <<now, registered, alive, late>>
    /\ UNCHANGED <<settingsVars, playerVars, guiVars>>

\* main: KeyboardInterrupt ends the sleep loop
KeyboardInterrupt ==
    /\ mainPc = "sleep"
    /\ mainPc' = "unregister"
    /\ UNCHANGED <<now, SEQ_START, pos, tmp, cur, windows, timers, registered,
                   alive, coveredUntil, late, ranAfterDel>>
    /\ UNCHANGED <<settingsVars, playerVars, guiVars>>

\* delete_synth: HANDLE.fluid_sequencer_unregister_client(SEQUENCER.seq, MY_SEQ_ID)
Unregister ==
    /\ mainPc = "unregister"
    /\ registered' = FALSE
    /\ mainPc' = "del SEQUENCER"
    /\ UNCHANGED <<now, SEQ_START, pos, tmp, cur, windows, timers,
                   alive, coveredUntil, late, ranAfterDel>>
    /\ UNCHANGED <<settingsVars, playerVars, guiVars>>

\* delete_synth: del SEQUENCER; del ADRIVER; del SYNTH, one statement at a time
Delete(what, next) ==
    /\ mainPc = "del " \o what
    /\ alive' = [alive EXCEPT ![what] = FALSE]
    /\ mainPc' = next
    /\ UNCHANGED <<now, SEQ_START, pos, tmp, cur, windows, timers, registered,
                   coveredUntil, late, ranAfterDel>>
    /\ UNCHANGED <<settingsVars, playerVars, guiVars>>

delete_synth ==
    \/ Unregister
    \/ Delete("SEQUENCER", "del ADRIVER")
    \/ Delete("ADRIVER", "del SYNTH")
    \/ Delete("SYNTH", "done")

(***************************************************************************)
(*                          Specifications                                 *)
(***************************************************************************)

(***************************************************************************)
(*                     examples/player_gui.py                              *)
(***************************************************************************)

\* Handlers run on the main thread, and Timer objects created
MaxGuiCalls == 4
MaxTimers   == 3

\* Optional[int]: None, or a value
None == << >>
Some(x) == <<x>>

\* MIDI player tempo types
TEMPO_DEFAULT == 0
TEMPO_BPM     == 1
TEMPO_MIDI    == 2

\* self.repeat_count = 1 of Player.__init__
repeat_count == 1

\* The command line's MIDI_FILES
Playlists == {<< >>, <<"a.mid">>, <<"a.mid", "b.mid">>}

\* What the user types in the tempo entries, and int() of it
TempoEntries == {"", "-5", "0", "120"}
EntryParses(s) == s \in {"-5", "0", "120"}
EntryInt(s) == CASE s = "-5" -> -5 [] s = "0" -> 0 [] OTHER -> 120

\* self._fluidplayer = None
NoPlayer == [exists |-> FALSE, files |-> << >>, cmds |-> << >>]

\* One call forwarded to the native player
NativeCmd(c, a, v) == [c |-> c, a |-> a, v |-> v]

\* Player.__init__ and PlayerGui.__init__
InitGui ==
    /\ stage = "new"
    /\ _fluidplayer = NoPlayer
    /\ _playlist = << >>
    /\ _tempo_bpm = None
    /\ _midi_tempo = None
    /\ gres = [op |-> "init", raised |-> "none", arg |-> None]
    /\ gcalls = 0
    /\ _timer = 0
    /\ timerSt = << >>
    /\ toPc = 0
    /\ exitPc = 0
    /\ updatedAfterExit = FALSE

\* Player._set_tempo: the native calls it makes on player fp
_set_tempo(fp, bpm, midi_tempo) ==
    IF ~fp.exists THEN << >>
    ELSE IF bpm # None THEN << NativeCmd("set_tempo", TEMPO_BPM, bpm[1]) >>
    ELSE IF midi_tempo # None THEN << NativeCmd("set_tempo", TEMPO_MIDI, midi_tempo[1]) >>
    ELSE << NativeCmd("set_tempo", TEMPO_DEFAULT, 0) >>

\* Player.play: the value of self._fluidplayer when it returns
Player_play ==
    IF ~_fluidplayer.exists
    THEN LET created == [exists |-> TRUE, files |-> << >>, cmds |-> << >>]
         IN  [exists |-> TRUE,
              files  |-> _playlist,
              cmds   |-> << NativeCmd("set_loop", 0, repeat_count) >>
                         \o _set_tempo(created, _tempo_bpm, _midi_tempo)
                         \o [i \in 1..Len(_playlist) |-> NativeCmd("add", 0, i)]]
    ELSE [_fluidplayer EXCEPT !.cmds = Append(@, NativeCmd("play", 0, 0))]

Mutant_tempo_bpm_setter(bpm) ==
    IF bpm # None /\ bpm[1] <= 0
    THEN [raised |-> "ValueError", bpm |-> _tempo_bpm, midi |-> _midi_tempo, cmds |-> << >>]
    ELSE [raised |-> "none", bpm |-> bpm, midi |-> _midi_tempo,
          cmds |-> _set_tempo(_fluidplayer, bpm, None)]

\* Player.tempo_bpm (setter): the two fields and the native calls after it
tempo_bpm_setter(bpm) ==
    IF bpm # None /\ bpm[1] <= 0
    THEN [raised |-> "ValueError", bpm |-> _tempo_bpm, midi |-> _midi_tempo, cmds |-> << >>]
    ELSE [raised |-> "none", bpm |-> bpm, midi |-> None,
          cmds |-> _set_tempo(_fluidplayer, bpm, None)]

\* Player.midi_tempo (setter)
midi_tempo_setter(midi_tempo) ==
    IF midi_tempo # None /\ midi_tempo[1] <= 0
    THEN [raised |-> "ValueError", bpm |-> _tempo_bpm, midi |-> _midi_tempo, cmds |-> << >>]
    ELSE [raised |-> "none", bpm |-> None, midi |-> midi_tempo,
          cmds |-> _set_tempo(_fluidplayer, None, midi_tempo)]

\* The main thread is in the Tk main loop and can run a handler
Idle == stage = "gui" /\ exitPc = 0 /\ gcalls < MaxGuiCalls

\* __main__: player.set_playlist(args.midi_files), then the GUI is built
set_playlist(files) ==
    /\ stage = "new"
    /\ stage' = "gui"
    /\ _playlist' = _playlist \o files
    /\ UNCHANGED <<_fluidplayer, _tempo_bpm, _midi_tempo, gres, gcalls,
                   _timer, timerSt, toPc, exitPc, updatedAfterExit>>
    /\ UNCHANGED <<settingsVars, playerVars, schedVars>>

\* PlayerGui._on_play: Player.play(), then the refresh timer is created and
\* started if there is none yet
_on_play ==
    /\ Idle
    /\ _fluidplayer' = Player_play
    /\ IF _timer = 0
       THEN /\ Len(timerSt) < MaxTimers
            /\ timerSt' = Append(timerSt, "waiting")
            /\ _timer' = Len(timerSt) + 1
       ELSE UNCHANGED <<_timer, timerSt>>
    /\ gres' = [op |-> "play", raised |-> "none", arg |-> None]
    /\ gcalls' = gcalls + 1
    /\ UNCHANGED <<stage, _playlist, _tempo_bpm, _midi_tempo, toPc, exitPc, updatedAfterExit>>
    /\ UNCHANGED <<settingsVars, playerVars, schedVars>>

\* Player.pause, the command of the Pause button
Player_pause ==
    /\ Idle
    /\ _fluidplayer' = IF _fluidplayer.exists
                       THEN [_fluidplayer EXCEPT !.cmds = Append(@, NativeCmd("stop", 0, 0))]
                       ELSE _fluidplayer
    /\ gres' = [op |-> "pause", raised |-> "none", arg |-> None]
    /\ gcalls' = gcalls + 1
    /\ UNCHANGED <<stage, _playlist, _tempo_bpm, _midi_tempo,
                   _timer, timerSt, toPc, exitPc, updatedAfterExit>>
    /\ UNCHANGED <<settingsVars, playerVars, schedVars>>

\* Player.stop, the command of the Stop button: the native player is stopped
\* and deleted (FluidPlayer.__del__), self._fluidplayer = None
Player_stop ==
    /\ Idle
    /\ _fluidplayer' = NoPlayer
    /\ gres' = [op |-> "stop", raised |-> "none", arg |-> None]
    /\ gcalls' = gcalls + 1
    /\ UNCHANGED <<stage, _playlist, _tempo_bpm, _midi_tempo,
                   _timer, timerSt, toPc, exitPc, updatedAfterExit>>
    /\ UNCHANGED <<settingsVars, playerVars, schedVars>>

\* PlayerGui._on_set_tempo_bpm: int() of the entry, then the tempo_bpm setter;
\* a ValueError of either is swallowed
_on_set_tempo_bpm(entry) ==
    /\ Idle
    /\ LET out == IF EntryParses(entry) THEN tempo_bpm_setter(Some(EntryInt(entry)))
                  ELSE [raised |-> "ValueError", bpm |-> _tempo_bpm, midi |-> _midi_tempo,
                        cmds |-> << >>]
       IN  /\ _tempo_bpm' = out.bpm
           /\ _midi_tempo' = out.midi
           /\ _fluidplayer' = [_fluidplayer EXCEPT !.cmds = @ \o out.cmds]
           /\ gres' = [op |-> "tempo_bpm", raised |-> out.raised,
                       arg |-> IF EntryParses(entry) THEN Some(EntryInt(entry)) ELSE None]
    /\ gcalls' = gcalls + 1
    /\ UNCHANGED <<stage, _playlist, _timer, timerSt, toPc, exitPc, updatedAfterExit>>
    /\ UNCHANGED <<settingsVars, playerVars, schedVars>>

\* PlayerGui._on_set_midi_tempo
_on_set_midi_tempo(entry) ==
    /\ Idle
    /\ LET out == IF EntryParses(entry) THEN midi_tempo_setter(Some(EntryInt(entry)))
                  ELSE [raised |-> "ValueError", bpm |-> _tempo_bpm, midi |-> _midi_tempo,
                        cmds |-> << >>]
       IN  /\ _tempo_bpm' = out.bpm
           /\ _midi_tempo' = out.midi
           /\ _fluidplayer' = [_fluidplayer EXCEPT !.cmds = @ \o out.cmds]
           /\ gres' = [op |-> "midi_tempo", raised |-> out.raised,
                       arg |-> IF EntryParses(entry) THEN Some(EntryInt(entry)) ELSE None]
    /\ gcalls' = gcalls + 1
    /\ UNCHANGED <<stage, _playlist, _timer, timerSt, toPc, exitPc, updatedAfterExit>>
    /\ UNCHANGED <<settingsVars, playerVars, schedVars>>

\* PlayerGui._on_reset_tempo: tempo_bpm = None, then midi_tempo = None
_on_reset_tempo ==
    /\ Idle
    /\ LET first == tempo_bpm_setter(None)
       IN  /\ _tempo_bpm' = None
           /\ _midi_tempo' = None
           /\ _fluidplayer' = [_fluidplayer EXCEPT
                                 !.cmds = @ \o first.cmds \o _set_tempo(_fluidplayer, None, None)]
    /\ gres' = [op |-> "reset", raised |-> "none", arg |-> None]
    /\ gcalls' = gcalls + 1
    /\ UNCHANGED <<stage, _playlist, _timer, timerSt, toPc, exitPc, updatedAfterExit>>
    /\ UNCHANGED <<settingsVars, playerVars, schedVars>>

\* Timer.cancel() on a Timer in state st: one that has fired is not affected
Cancelled(st) == IF st \in {"created", "waiting"} THEN "cancelled" ELSE st

\* PlayerGui._on_exit, first statement: if self._timer is not None: self._timer.cancel()
ExitCancel ==
    /\ stage = "gui" /\ exitPc = 0
    /\ exitPc' = 1
    /\ timerSt' = IF _timer # 0 THEN [timerSt EXCEPT ![_timer] = Cancelled(@)] ELSE timerSt
    /\ UNCHANGED <<stage, _fluidplayer, _playlist, _tempo_bpm, _midi_tempo, gres, gcalls,
                   _timer, toPc, updatedAfterExit>>
    /\ UNCHANGED <<settingsVars, playerVars, schedVars>>

\* PlayerGui._on_exit, second statement: self._root.destroy()
ExitDestroy ==
    /\ exitPc = 1
    /\ exitPc' = 2
    /\ UNCHANGED <<stage, _fluidplayer, _playlist, _tempo_bpm, _midi_tempo, gres, gcalls,
                   _timer, timerSt, toPc, updatedAfterExit>>
    /\ UNCHANGED <<settingsVars, playerVars, schedVars>>

\* The interval of a started Timer has elapsed before any cancel: its thread
\* enters _on_timeout
TimerFire ==
    /\ toPc = 0
    /\ \E i \in 1..Len(timerSt) :
          /\ timerSt[i] = "waiting"
          /\ timerSt' = [timerSt EXCEPT ![i] = "fired"]
    /\ toPc' = 361
    /\ UNCHANGED <<stage, _fluidplayer, _playlist, _tempo_bpm, _midi_tempo, gres, gcalls,
                   _timer, exitPc, updatedAfterExit>>
    /\ UNCHANGED <<settingsVars, playerVars, schedVars>>

\* _on_timeout, one statement at a time on the timer thread: the label
\* update (an error other than TypeError once the window is destroyed, which
\* ends the thread), self._timer = Timer(...), self._timer.start()
_on_timeout ==
    /\ toPc # 0
    /\ CASE toPc = 361 ->
              /\ toPc' = IF exitPc = 2 THEN 0 ELSE 362
              /\ updatedAfterExit' = (updatedAfterExit \/ exitPc = 2)
              /\ UNCHANGED <<_timer, timerSt>>
         [] toPc = 362 ->
              /\ Len(timerSt) < MaxTimers
              /\ timerSt' = Append(timerSt, "created")
              /\ _timer' = Len(timerSt) + 1
              /\ toPc' = 363
              /\ UNCHANGED updatedAfterExit
         [] OTHER ->
              /\ timerSt' = [timerSt EXCEPT ![_timer] = IF @ = "created" THEN "waiting" ELSE @]
              /\ toPc' = 0
              /\ UNCHANGED <<_timer, updatedAfterExit>>
    /\ UNCHANGED <<stage, _fluidplayer, _playlist, _tempo_bpm, _midi_tempo, gres, gcalls, exitPc>>
    /\ UNCHANGED <<settingsVars, playerVars, schedVars>>

Init == InitSettings /\ InitPlayer /\ InitSched /\ InitGui

NextSettings ==
    \/ \E key \in Keys : GetItem(key)
    \/ \E key \in Keys, value \in SetValues \cup {StrV(n) : n \in DriverNames},
          raw \in RawCodes(libVersion) : SetItem(key, value, raw)

\* The store driven through its quality property, with direct reads and
\* writes of the keys in between
NextQuality ==
    \/ \E key \in Keys : GetItem(key)
    \/ \E key \in Keys, value \in {IntV(0), IntV(1)},
          raw \in RawCodes(libVersion) : SetItem(key, value, raw)
    \/ \E preset \in Presets, raws \in [1..3 -> RawCodes(libVersion)] :
          SetQuality(preset, raws)

NextPlayer ==
    \/ \E midi \in BOOLEAN : Play(midi)
    \/ Stop
    \/ Pause
    \/ \E raw \in {OK, FAILED} : Del(raw)

NextSched ==
    \/ Tick
    \/ Prime
    \/ Dispatch
    \/ \E th \in Threads : Statement(th)
    \/ KeyboardInterrupt
    \/ delete_synth

NextGui ==
    \/ \E files \in Playlists : set_playlist(files)
    \/ _on_play
    \/ Player_pause
    \/ Player_stop
    \/ \E entry \in TempoEntries : _on_set_tempo_bpm(entry)
    \/ \E entry \in TempoEntries : _on_set_midi_tempo(entry)
    \/ _on_reset_tempo
    \/ ExitCancel
    \/ ExitDestroy
    \/ TimerFire
    \/ _on_timeout

\* The player and the scheduler do not depend on the library version
InitV2 == Init /\ libVersion = 2

SpecSettings == Init /\ [][NextSettings]_vars
SpecQuality  == Init /\ [][NextQuality]_vars
SpecPlayer   == InitV2 /\ [][NextPlayer]_vars
SpecSched    == InitV2 /\ [][NextSched]_vars
SpecGui      == InitV2 /\ [][NextGui]_vars

(***************************************************************************)
(*                             Properties                                  *)
(***************************************************************************)

\* C1: for every existing key of numeric or integer kind, get(key) returns
\* the stored value whatever the library version; a read the library has
\* carried out is never reported as an error.
C1_GetReturnsStored ==
    (res.op = "get" /\ KeyType(res.key) \in {FLUID_NUM_TYPE, FLUID_INT_TYPE})
        => (res.raised = "none" /\ res.val = table[res.key])

C3_PausedMirrorsPlayer ==
    paused = (LastCommand(log) \in {"none", "stop"})

\* C4: pause() is a toggle: it forwards stop when the native player is
\* playing and play when it is not, so consecutive pause() calls alternate.
C4_PauseToggles ==
    \A i \in 1..Len(log) :
        log[i].call = "pause" =>
            log[i].cmds = << IF LastCommand(SubSeq(log, 1, i - 1)) = "play"
                             THEN "stop" ELSE "play" >>

\* C5: the client is unregistered before the sequencer is deleted, and the
\* callback is neither entered nor still running once it is deleted.
C5_ShutdownOrdering ==
    /\ ~alive.SEQUENCER => ~registered
    /\ ~ranAfterDel

\* What one schedule_next_sequence submits for the window starting at s
ExpectedMsgs(s) ==
    [k \in 1..7 |-> IF k <= 6
                    THEN NoteOn(Notes[k].chan, Notes[k].key, s + Notes[k].beat * TPB)
                    ELSE TimerEvent(s + SEQ_DURATION \div 2)]

\* Every schedule_next_sequence completed or under way
Emitted == {windows[n] : n \in 1..Len(windows)}
             \cup {[thread |-> th, start |-> cur[th].start, tstart |-> cur[th].tstart,
                     msgs |-> cur[th].msgs, before |-> 0, stored |-> 0] : th \in Threads}

C7_FullWindowLead ==
    (mainPc = "sleep" /\ ~late) => coveredUntil - now >= SEQ_DURATION

\* C7, amended: under the same conditions the submitted events reach at
\* least half a window (SEQ_DURATION / 2) beyond the current tick.
C7_HalfWindowLead ==
    (mainPc = "sleep" /\ ~late) => coveredUntil - now >= SEQ_DURATION \div 2

\* The second wake-up is due, nothing ran late, and exactly half a window
\* of submitted events is left
C7_Witness ==
    /\ mainPc = "sleep" /\ ~late
    /\ Len(windows) >= 2 /\ pos["seq"] = 0
    /\ \E i \in 1..Len(timers) : timers[i] = now
    /\ coveredUntil - now = SEQ_DURATION \div 2

\* Timer events sent so far, and callbacks entered so far
TimersSent ==
    LET count(msgs) == Cardinality({k \in 1..Len(msgs) : msgs[k].type = "timer"})
        RECURSIVE sum(_)
        sum(n) == IF n = 0 THEN 0 ELSE count(windows[n].msgs) + sum(n - 1)
    IN  sum(Len(windows)) + count(cur["main"].msgs) + count(cur["seq"].msgs)
Entered == TimersSent - Len(timers)

\* C8: each schedule_next_sequence sends its six notes inside
\* [start, start + D), then one timer at start + D/2 to MY_SEQ_ID, then moves
\* SEQ_START from start to start + D; each callback runs exactly one.
C8_EmitWindow ==
    /\ \A n \in 1..Len(windows) :
          /\ windows[n].msgs = ExpectedMsgs(windows[n].start)
          /\ windows[n].before = windows[n].start
          /\ windows[n].stored = windows[n].start + SEQ_DURATION
    /\ pos["seq"] = 0 =>
          Entered = Cardinality({n \in 1..Len(windows) : windows[n].thread = "seq"})

\* The tick main() primed the scheduler with
PrimeTick ==
    IF \E n \in 1..Len(windows) : windows[n].thread = "main"
    THEN windows[CHOOSE n \in 1..Len(windows) : windows[n].thread = "main"].start
    ELSE cur["main"].start

\* C9: the n-th window submitted is the one starting at s0 + n*D, whenever
\* and on whichever thread the callbacks run.
C9_Deterministic ==
    \A n \in 1..Len(windows) :
        PrimeTick >= 0 => windows[n].msgs = ExpectedMsgs(PrimeTick + (n - 1) * SEQ_DURATION)

\* C10: schedule_next_sequence never runs on the main thread and in the
\* callback at the same time.
C10_NeverOverlap ==
    ~(pos["main"] # 0 /\ pos["seq"] # 0)

\* The keys the quality setter writes, and the value each preset gives them
QualityKeys == {"synth.chorus.active", "synth.reverb.active", "synth.sample-rate"}

PresetValue(preset, key) ==
    CASE key = "synth.chorus.active" -> IF preset = QUALITY_HIGH THEN IntV(1) ELSE IntV(0)
      [] key = "synth.reverb.active" -> IF preset = QUALITY_LOW THEN IntV(0) ELSE IntV(1)
      [] OTHER -> IF preset = QUALITY_LOW THEN FloatV(220500) ELSE FloatV(441000)

\* The quality setter ran its three writes and the library stored each
QualityApplied(r) == r.op = "quality" /\ r.raised = "none" /\ r.wrote = 3

\* C11: after a successful set_quality(preset) the chorus, reverb and
\* sample-rate keys hold the preset's values (low: off, off, 22050; medium:
\* off, on, 44100; high: on, on, 44100), all written by that call, and
\* reading them back returns these values.
C11_PresetAppliedAndReadBack ==
    [][ /\ QualityApplied(res') =>
              \A k \in QualityKeys : table'[k] = PresetValue(quality', k)
        /\ (QualityApplied(res) /\ res'.op = "get" /\ res'.key \in QualityKeys) =>
              (res'.raised = "none" /\ res'.val = PresetValue(quality, res'.key))
      ]_vars

\* C12: get_quality() returns the last preset passed to set_quality,
\* whatever the previous one was and whether or not the writes went through,
\* and medium on a freshly constructed store.
C12_LabelIsLastPreset ==
    /\ get_quality = lastPreset
    /\ res.op = "init" => get_quality = QUALITY_MEDIUM

\* set_quality("high") was called on a store that was not at high, its first
\* write was rejected, and get_quality() is "high"
C12_Witness ==
    /\ res.op = "quality" /\ res.raised = "KeyError" /\ res.wrote = 0
    /\ lastPreset = QUALITY_HIGH /\ get_quality = QUALITY_HIGH
    /\ table["synth.chorus.active"] = IntV(0)

\* C13: only set_quality changes the cached quality label: a get or a set on
\* any key, the preset's keys included, leaves get_quality() unchanged, so the
\* label may disagree with the live values.
C13_LabelOnlyBySetQuality ==
    [][res'.op \in {"get", "set"} => quality' = quality]_vars

\* The label is low while a direct write has switched the chorus on
C13_Witness ==
    /\ res.op = "set" /\ res.key = "synth.chorus.active" /\ res.raised = "none"
    /\ table["synth.chorus.active"] = IntV(1)
    /\ get_quality = QUALITY_LOW

\* The number (in tenths) a numeric-kind key is to receive for each input
ExpectedNum(value) ==
    CASE value.t = "int"   -> value.v * 10
      [] value.t = "float" -> value.v
      [] value.v = "3.5"   -> 35
      [] value.v = "7"     -> 70
      [] value.v \in {"off", "OFF"} -> 0
      [] OTHER -> 10

\* C14: a set on a numeric-kind key forwards the coerced value: a number is
\* converted directly, a string that parses yields its number, and any other
\* string yields 0.0 if its lowercase form is false, no or off and 1.0
\* otherwise ("true" -> 1.0, "off" -> 0.0, "banana" -> 1.0, "3.5" -> 3.5).
C14_NumericCoercion ==
    (res.op = "set" /\ KeyType(res.key) = FLUID_NUM_TYPE) =>
        res.sent = FloatV(ExpectedNum(res.arg))

\* "OFF" was written to the sample rate and 0.0 was forwarded
C14_Witness ==
    /\ res.op = "set" /\ res.key = "synth.sample-rate" /\ res.arg = StrV("OFF")
    /\ res.sent = FloatV(0) /\ res.raised = "none"
    /\ table["synth.sample-rate"] = FloatV(0)

\* C15: for every input, the value a set forwards for an integer-kind key
\* is the numeric-kind coercion of that input truncated to an integer.
C15_IntIsTruncatedFloat ==
    (res.op = "set" /\ KeyType(res.key) = FLUID_INT_TYPE) =>
        res.sent = IntV(_coerce_to_float(res.arg) \div 10)

\* C16: for a key whose kind is absent or is none of numeric, integer and
\* string (the set kind included), get and set fail with key-not-found, set
\* issues no underlying write and the table is unchanged.
C16_UntypedKeyNotFound ==
    [][ (res'.op \in {"get", "set"}
         /\ KeyType(res'.key) \notin {FLUID_NUM_TYPE, FLUID_INT_TYPE, FLUID_STR_TYPE}) =>
            (res'.raised = "KeyError" /\ table' = table /\ libWrites' = libWrites)
      ]_vars

\* A set on the key of set kind has raised KeyError
C16_Witness ==
    /\ res.op = "set" /\ res.key = "synth" /\ KeyType(res.key) = FLUID_SET_TYPE
    /\ res.arg = IntV(1) /\ res.raised = "KeyError" /\ res.sent = NoVal

\* C17: a write the library rejects makes set fail with RejectedValue, an
\* error distinct from the KeyNotFound of a key without a kind.
C17_RejectedValueDistinct ==
    /\ (res.op = "set" /\ res.key \in TypedKeys /\ WriteRaises(res.raw)) =>
            res.raised = "RejectedValue"
    /\ (res.op = "set" /\ res.key \notin TypedKeys) => res.raised = "KeyError"

\* C18: a get on a string key with a library without string retrieval fails
\* with UnsupportedOperation, an error distinct from KeyNotFound.
C18_UnsupportedStringGet ==
    (res.op = "get" /\ KeyType(res.key) = FLUID_STR_TYPE /\ ~HasGetStr(libVersion)) =>
        res.raised = "UnsupportedOperation"

\* C19: the library version is queried at construction only: no call of the
\* store after construction queries it again.
C19_VersionQueriedOnce ==
    [][versionQueries' = versionQueries]_vars

\* C20: destroying a FluidPlayer forwards stop, then join, then delete, in
\* that order and as its last native calls; nothing is deleted before both
\* stop and join were issued, and FluidError is raised exactly when the
\* delete fails.
C20_ReleaseOrder ==
    LET f == Flatten(log)
    IN  /\ \A k \in 1..Len(f) : f[k] = "delete" =>
              /\ k = Len(f) /\ k >= 3
              /\ f[k - 2] = "stop" /\ f[k - 1] = "join"
        /\ del.done => (Len(f) >= 3 /\ f[Len(f)] = "delete")
        /\ del.done => ((del.raised = "FluidError") <=> (del.raw = FAILED))
        /\ ~del.done => del.raised = "none"

\* A player that was playing has been destroyed and its delete failed
C20_Witness ==
    /\ del.done /\ del.raw = FAILED /\ del.raised = "FluidError"
    /\ Len(log) >= 2 /\ log[Len(log) - 1].call = "play"
    /\ log[Len(log)].cmds = <<"stop", "join", "delete">>

\* Position of a key among the three assignments of the quality setter
WriteIndex(key) ==
    CASE key = "synth.chorus.active" -> 1
      [] key = "synth.reverb.active" -> 2
      [] OTHER -> 3

\* C22: when one of the three writes of set_quality is rejected the call
\* raises without rollback: the label already names the new preset, the keys
\* written before the failing one keep their new values and the failing key
\* and those after it keep their old ones.
C22_NoRollback ==
    [][ (res'.op = "quality" /\ res'.raised = "KeyError") =>
            /\ quality' = res'.arg.v
            /\ \A k \in QualityKeys :
                  /\ WriteIndex(k) >= WriteIndex(res'.key) => table'[k] = table[k]
                  /\ (WriteIndex(k) < WriteIndex(res'.key)
                      /\ res'.wrote = WriteIndex(res'.key) - 1) =>
                        table'[k] = PresetValue(res'.arg.v, k)
      ]_vars

\* set_quality("low") on a medium store failed on its third write: the label
\* is low, the reverb is off as for low, the sample rate is still 44100
C22_Witness ==
    /\ res.op = "quality" /\ res.raised = "KeyError"
    /\ res.key = "synth.sample-rate" /\ res.wrote = 2
    /\ get_quality = QUALITY_LOW
    /\ table["synth.reverb.active"] = IntV(0)
    /\ table["synth.sample-rate"] = FloatV(441000)

\* The native player of the GUI Player is playing: it has received a play
\* command and no stop after it
NativePlaying(fp) ==
    \E k \in 1..Len(fp.cmds) :
        /\ fp.cmds[k].c = "play"
        /\ \A j \in (k + 1)..Len(fp.cmds) : fp.cmds[j].c # "stop"

\* C21: when Player.play() has returned, whether there was no native player
\* yet, a paused one, or none any more after stop(), a native player exists,
\* holds the files of the playlist and has received a play command.
C21_PlayStarts ==
    gres.op = "play" =>
        /\ _fluidplayer.exists
        /\ _fluidplayer.files = _playlist
        /\ NativePlaying(_fluidplayer)

\* C23: at most one of tempo_bpm and midi_tempo is not None; an accepted
\* assignment of one stores the value and clears the other, and one rejected
\* with ValueError (a value <= 0) changes neither.
C23_TempoExclusive ==
    [][ /\ (_tempo_bpm' = None \/ _midi_tempo' = None)
        /\ (gres'.op = "tempo_bpm" /\ gres'.raised = "none") =>
              (_tempo_bpm' = gres'.arg /\ _midi_tempo' = None)
        /\ (gres'.op = "midi_tempo" /\ gres'.raised = "none") =>
              (_midi_tempo' = gres'.arg /\ _tempo_bpm' = None)
        /\ (gres'.op \in {"tempo_bpm", "midi_tempo"} /\ gres'.raised = "ValueError") =>
              (_tempo_bpm' = _tempo_bpm /\ _midi_tempo' = _midi_tempo)
      ]_vars

\* midi_tempo was set, then tempo_bpm = 120 was accepted and cleared it
C23_Witness ==
    /\ gres.op = "tempo_bpm" /\ gres.raised = "none" /\ gres.arg = Some(120)
    /\ _tempo_bpm = Some(120) /\ _midi_tempo = None
    /\ _fluidplayer.exists
    /\ \E k \in 1..Len(_fluidplayer.cmds) :
          _fluidplayer.cmds[k] = NativeCmd("set_tempo", TEMPO_MIDI, 120)

\* C24: once _on_exit has cancelled the timer and destroyed the window, no
\* refresh timer is pending, _on_timeout is not creating or starting one,
\* and no label update is attempted, however _on_exit interleaves with an
\* _on_timeout running on the timer thread.
C24_NoTimerAfterExit ==
    exitPc = 2 =>
        /\ \A i \in 1..Len(timerSt) : timerSt[i] # "waiting"
        /\ toPc \notin {362, 363}
        /\ ~updatedAfterExit

=============================================================================
